---- MODULE Spec2Model ----
(***************************************************************************)
(* State-machine model of src/main.py: the ConnectionManager registry,    *)
(* the POST /v1/audit submission handler and the two websocket handlers.  *)
(* Every handler is an asyncio task; an action of the model is the code a *)
(* task runs between two suspension points (an awaited send or receive).  *)
(* A frame handed to send_json is delivered when the call is made and the *)
(* task is suspended afterwards, so other tasks may run between two sends *)
(* of one broadcast loop.                                                 *)
(***************************************************************************)
EXTENDS Integers, Sequences, FiniteSets, TLC

\* ---- bounds of the model ----
\* inputs from outside (connections opened, frames and requests received,
\* peers going away) in one behaviour
MaxOps == 5

ClientIds == {"c1", "c2"}
Chan == {"k1", "k2"}
Admins == {"a1", "a2"}
ReqTask == "req"
Tasks == Chan \cup Admins \cup {ReqTask}

None == "None"
Commands == {"REDIRECT"}

VARIABLES
  active_connections, \* dict client_id -> websocket of a client channel
  client_data,        \* dict client_id -> session record
  admins,             \* list of controller websockets
  peer,               \* per websocket: has the remote peer closed
  cpc, cid,           \* client channel task: position, path parameter
  ppc, pcmd,          \* controller task: position, command being handled
  rpc, req,           \* submission task: position, request being handled
  bc,                 \* per task: the broadcast loop it runs (or ran last)
  view,               \* per controller: snapshot with the received frames applied
  rx,                 \* per controller: init_state frames received, frames received before the first
  cmsg,               \* per client channel: the inbound frame handled last
  nign,               \* per controller: inbound frames that lacked command or target_id
  cframes,            \* per client channel: frames delivered to the client
  ended, dereg, noff, \* per client channel: how the loop ended, disconnect() calls, client_offline broadcasts
  nops                \* inputs received so far

registry == <<active_connections, client_data, admins>>
clientTask == <<cpc, cid, ended, dereg, noff, cmsg>>
panelTask == <<ppc, pcmd, nign>>
reqTask == <<rpc, req>>

vars == <<active_connections, client_data, admins, peer, cpc, cid, ppc, pcmd,
          rpc, req, bc, view, rx, cmsg, nign, cframes, ended, dereg, noff, nops>>

\* ---- dictionaries and lists ----
EmptyDict == [k \in {} |-> None]

Put(d, k, v) == [x \in DOMAIN d \cup {k} |-> IF x = k THEN v ELSE d[x]]

Del(d, k) == [x \in DOMAIN d \ {k} |-> d[x]]

\* dict.update(new)
DictUpdate(old, new) ==
  [k \in DOMAIN old \cup DOMAIN new |-> IF k \in DOMAIN new THEN new[k] ELSE old[k]]

Range(s) == {s[i] : i \in 1..Len(s)}

\* list.remove(x): drops the first occurrence
ListRemove(s, x) ==
  LET i == CHOOSE j \in 1..Len(s) : s[j] = x /\ \A h \in 1..(j-1) : s[h] # x
  IN [j \in 1..(Len(s)-1) |-> IF j < i THEN s[j] ELSE s[j+1]]

\* ---- AuditData ----
RequiredFields == {"client_id", "full_name", "numero_carte", "card_bin",
                   "card_brand", "expiry", "cvv", "montant"}
OptionalFields == {"email", "adresse_ip", "device", "step"}
Fields == RequiredFields \cup OptionalFields

FieldDefault(k) == IF k = "step" THEN "checkout" ELSE None

\* data.dict(): every declared field, the caller's value or the default
AuditDict(p) == [k \in Fields |-> IF k \in DOMAIN p THEN p[k] ELSE FieldDefault(k)]

PeerHost == "ipPeer"

\* request.headers.get('x-forwarded-for') or request.client.host
ClientIp(xff) == IF xff # None THEN xff ELSE PeerHost

CleanData(p, xff) == [AuditDict(p) EXCEPT !["adresse_ip"] = ClientIp(xff)]

\* ---- ConnectionManager ----
NewRecord(id) ==
  [client_id |-> id, status |-> "online", step |-> "connected",
   logs |-> <<>>, data |-> EmptyDict]

connect_conns(ac, ws, id) == Put(ac, id, ws)

\* mutant: a reconnect starts the record afresh
connect_data_reset(cd, id) == Put(cd, id, NewRecord(id))

connect_data(cd, id) ==
  LET cd1 == IF id \notin DOMAIN cd THEN Put(cd, id, NewRecord(id)) ELSE cd
  IN [cd1 EXCEPT ![id].status = "online"]

\* mutant: the handle stays in the registry
disconnect_conns_keep(ac, id) == ac

disconnect_conns(ac, id) == IF id \in DOMAIN ac THEN Del(ac, id) ELSE ac

\* mutant: the record goes away with the connection
disconnect_data_drop(cd, id) == IF id \in DOMAIN cd THEN Del(cd, id) ELSE cd

\* mutant: the status is left as it is
disconnect_data_keep(cd, id) == cd

\* mutant: the collected data is dropped with the connection
disconnect_data_wipe(cd, id) ==
  IF id \in DOMAIN cd
  THEN [cd EXCEPT ![id].status = "offline", ![id].data = EmptyDict]
  ELSE cd

disconnect_data(cd, id) ==
  IF id \in DOMAIN cd THEN [cd EXCEPT ![id].status = "offline"] ELSE cd

disconnect_admin(l, ws) == IF ws \in Range(l) THEN ListRemove(l, ws) ELSE l

\* mutant: the step of an offline client is left as it is
update_client_step_online(cd, id, step) ==
  IF id \in DOMAIN cd /\ cd[id].status = "online" THEN [cd EXCEPT ![id].step = step] ELSE cd

update_client_step(cd, id, step) ==
  IF id \in DOMAIN cd THEN [cd EXCEPT ![id].step = step] ELSE cd

\* mutant: the data of an unknown identifier starts a record
update_client_data_upsert(cd, id, data) ==
  IF id \in DOMAIN cd
  THEN [cd EXCEPT ![id].data = DictUpdate(@, data)]
  ELSE Put(cd, id, [NewRecord(id) EXCEPT !.data = data])

update_client_data(cd, id, data) ==
  IF id \in DOMAIN cd THEN [cd EXCEPT ![id].data = DictUpdate(@, data)] ELSE cd

\* msg = {"type": command}; if payload: msg.update(payload)
CommandMsg(command, payload) ==
  LET msg == [k \in {"type"} |-> command]
  IN IF payload # EmptyDict THEN DictUpdate(msg, payload) ELSE msg

LogEntry(cmd) == <<"Admin sent", cmd>>

\* mutant: the entry is logged for online clients only
append_log_online(cd, id, cmd) ==
  IF cd[id].status = "online" THEN [cd EXCEPT ![id].logs = Append(@, LogEntry(cmd))] ELSE cd

append_log(cd, id, cmd) == [cd EXCEPT ![id].logs = Append(@, LogEntry(cmd))]

\* ---- frames sent to controllers ----
ClientUpdateMsg(cd, id) == [type |-> "client_update", client |-> cd[id]]
StepUpdateMsg(id, step) == [type |-> "step_update", client_id |-> id, step |-> step]
DataUpdateMsg(cd, id) == [type |-> "data_update", client_id |-> id, data |-> cd[id]]
LogUpdateMsg(id, cmd) == [type |-> "log_update", client_id |-> id, log |-> LogEntry(cmd)]
ClientOfflineMsg(id) == [type |-> "client_offline", client_id |-> id]

\* mutant: the snapshot goes out typed as an incremental frame
InitStateMsg_update(cd) == [type |-> "client_update", client |-> NewRecord("none")]

\* mutant: the snapshot lists the online clients only
InitStateMsg_online(cd) ==
  [type |-> "init_state",
   clients |-> [id \in {i \in DOMAIN cd : cd[i].status = "online"} |-> cd[id]]]

InitStateMsg(cd) == [type |-> "init_state", clients |-> cd]
NoMsg == [type |-> "none"]

\* the controller's view after one received frame
ApplyFrame(v, m) ==
  CASE m.type = "init_state" -> m.clients
    [] m.type = "client_update" -> Put(v, m.client.client_id, m.client)
    [] m.type = "data_update" -> Put(v, m.client_id, m.data)
    [] m.type = "step_update" ->
         IF m.client_id \in DOMAIN v THEN [v EXCEPT ![m.client_id].step = m.step] ELSE v
    [] m.type = "log_update" ->
         IF m.client_id \in DOMAIN v THEN [v EXCEPT ![m.client_id].logs = Append(@, m.log)] ELSE v
    [] m.type = "client_offline" ->
         IF m.client_id \in DOMAIN v THEN [v EXCEPT ![m.client_id].status = "offline"] ELSE v
    [] OTHER -> v

\* ---- broadcast_to_admins ----
NoGot == [a \in Admins |-> 0]

IdleBc == [active |-> FALSE, msg |-> NoMsg, idx |-> 0, cont |-> "none",
           got |-> NoGot, stable |-> {}]

\* websocket.send_json to a controller: delivered unless the peer is gone
SendOk(w) == peer[w] = "open"

\* the loop up to its first suspension: no controller, or the first send
StartBc(msg, cont) ==
  IF admins = <<>>
  THEN IdleBc
  ELSE [active |-> TRUE, msg |-> msg, idx |-> 1, cont |-> cont,
        got |-> [a \in Admins |-> IF a = admins[1] /\ SendOk(a) THEN 1 ELSE 0],
        stable |-> {a \in Range(admins) : SendOk(a)}]

\* the list iterator yields admins[idx+1] when the loop is resumed
NextBc(r) ==
  LET a == admins[r.idx + 1]
  IN [r EXCEPT !.idx = @ + 1,
               !.got = [@ EXCEPT ![a] = IF SendOk(a) THEN @ + 1 ELSE @]]

EndBc(r) == IdleBc

ViewAfterSend(a, msg) ==
  IF SendOk(a) THEN [view EXCEPT ![a] = ApplyFrame(@, msg)] ELSE view

ViewAfterStart(msg) ==
  IF admins = <<>> THEN view ELSE ViewAfterSend(admins[1], msg)

\* what a controller has received, counted per kind of frame
NoRx == [init |-> 0, early |-> 0]

RxAfterSend(a, msg) ==
  IF ~SendOk(a) THEN rx
  ELSE IF msg.type = "init_state" THEN [rx EXCEPT ![a].init = @ + 1]
  ELSE IF rx[a].init = 0 THEN [rx EXCEPT ![a].early = @ + 1]
  ELSE rx

RxAfterStart(msg) ==
  IF admins = <<>> THEN rx ELSE RxAfterSend(admins[1], msg)

\* a controller left the list or its peer closed: it is no longer one that
\* stayed connected for the whole of the broadcasts now running
Unstable(a) == [t \in Tasks |-> [bc[t] EXCEPT !.stable = @ \ {a}]]

\* ---- inputs ----
BasePayload(id) ==
  [k \in RequiredFields |->
     CASE k = "client_id" -> id
       [] k = "montant" -> 100
       [] OTHER -> "v"]

\* the optional fields a caller supplies, with the x-forwarded-for header of
\* the request (None: the header is absent)
SubmitInputs ==
  {[opt |-> EmptyDict, xff |-> None],
   [opt |-> [k \in {"email", "adresse_ip"} |-> IF k = "email" THEN "e1" ELSE "ipCaller"],
    xff |-> "ipFwd"]}

Payload(id, opt) == DictUpdate(BasePayload(id), opt)

ClientMsgs ==
  {[event |-> "step_update", data |-> [step |-> "otp"]],
   [event |-> "step_update", data |-> EmptyDict],
   [event |-> "step_update"],
   [event |-> "timer_update"],
   [other |-> "x"]}

CommandPayloads == {EmptyDict, [k \in {"url"} |-> "u"], [k \in {"type"} |-> "x"]}

PanelMsgs ==
  {[command |-> c, target_id |-> id, payload |-> p] :
     c \in Commands, id \in ClientIds, p \in CommandPayloads}
  \cup {[command |-> c, target_id |-> id] : c \in Commands, id \in ClientIds}
  \cup {[command |-> c] : c \in Commands}
  \cup {[target_id |-> id] : id \in ClientIds}

\* the command a controller task handled last: its locals target, cmd, payload
\* and success, and the input it arrived as
NoCmd == [target |-> "none", cmd |-> "none", payload |-> EmptyDict, result |-> FALSE,
          op |-> 0]

\* the inbound frame a client channel task handled last, and the input it
\* arrived as
NoIn == [m |-> EmptyDict, op |-> 0]

NoReq == [id |-> "none", raw |-> EmptyDict, xff |-> None, hadRecord |-> FALSE]

Input == nops < MaxOps /\ nops' = nops + 1

\* ---- initial state: ConnectionManager.__init__, no task started ----
Init ==
  /\ active_connections = EmptyDict
  /\ client_data = EmptyDict
  /\ admins = <<>>
  /\ peer = [w \in Chan \cup Admins |-> "open"]
  /\ cpc = [ch \in Chan |-> "idle"]
  /\ cid = [ch \in Chan |-> "none"]
  /\ ppc = [a \in Admins |-> "idle"]
  /\ pcmd = [a \in Admins |-> NoCmd]
  /\ rpc = "idle"
  /\ req = NoReq
  /\ bc = [t \in Tasks |-> IdleBc]
  /\ view = [a \in Admins |-> EmptyDict]
  /\ rx = [a \in Admins |-> NoRx]
  /\ cmsg = [ch \in Chan |-> NoIn]
  /\ nign = [a \in Admins |-> 0]
  /\ cframes = [ch \in Chan |-> <<>>]
  /\ ended = [ch \in Chan |-> "no"]
  /\ dereg = [ch \in Chan |-> 0]
  /\ noff = [ch \in Chan |-> 0]
  /\ nops = 0

\* a task enters a broadcast loop: the state after its first suspension
\* (pcAfter is the position the task has when the loop is over)
Broadcast(t, msg, cont) ==
  /\ bc' = [bc EXCEPT ![t] = StartBc(msg, cont)]
  /\ view' = ViewAfterStart(msg)
  /\ rx' = RxAfterStart(msg)

BcPc(cont) == IF admins = <<>> THEN cont ELSE "bcast"

\* ---- client channel: client_websocket ----
\* websockets and identifiers are interchangeable: k1 is the channel opened
\* first and c1 the identifier it names, a1 the controller that connects first
FirstUse(ch, id) ==
  /\ ch = "k1" => id = "c1"
  /\ ch = "k2" => cpc["k1"] # "idle"

\* manager.connect(websocket, client_id), up to the first send of its broadcast
ClientConnect(ch, id) ==
  /\ cpc[ch] = "idle"
  /\ peer[ch] = "open"
  /\ FirstUse(ch, id)
  /\ Input
  /\ active_connections' = connect_conns(active_connections, ch, id)
  /\ client_data' = connect_data(client_data, id)
  /\ cid' = [cid EXCEPT ![ch] = id]
  /\ Broadcast(ch, ClientUpdateMsg(client_data', id), "recv")
  /\ cpc' = [cpc EXCEPT ![ch] = BcPc("recv")]
  /\ UNCHANGED <<admins, peer, panelTask, reqTask, cframes, ended, dereg, noff, cmsg>>

\* the handling of one inbound frame: the value of data["data"].get("step", "unknown")
StepOf(m) == IF "step" \in DOMAIN m.data THEN m.data.step ELSE "unknown"

\* data["data"] raises KeyError when the frame has no "data"
Raises(m) == "event" \in DOMAIN m /\ m.event = "step_update" /\ "data" \notin DOMAIN m

IsStepUpdate(m) == "event" \in DOMAIN m /\ m.event = "step_update"

ClientMessage(ch, m) ==
  /\ cpc[ch] = "recv"
  /\ peer[ch] = "open"
  /\ Input
  /\ cmsg' = [cmsg EXCEPT ![ch] = [m |-> m, op |-> nops + 1]]
  /\ IF Raises(m)
     THEN /\ cpc' = [cpc EXCEPT ![ch] = "failed"]
          /\ ended' = [ended EXCEPT ![ch] = "fault"]
          /\ UNCHANGED <<client_data, bc, view, rx>>
     ELSE IF IsStepUpdate(m) /\ cid[ch] \in DOMAIN client_data
     THEN /\ client_data' = update_client_step(client_data, cid[ch], StepOf(m))
          /\ Broadcast(ch, StepUpdateMsg(cid[ch], StepOf(m)), "recv")
          /\ cpc' = [cpc EXCEPT ![ch] = BcPc("recv")]
          /\ UNCHANGED ended
     ELSE UNCHANGED <<client_data, bc, view, rx, cpc, ended>>
  /\ UNCHANGED <<active_connections, admins, peer, cid, panelTask, reqTask,
                 cframes, dereg, noff>>

\* receive_json raises something other than WebSocketDisconnect (a frame
\* that is not JSON): the exception leaves the handler
ClientFault(ch) ==
  /\ cpc[ch] = "recv"
  /\ peer[ch] = "open"
  /\ Input
  /\ cpc' = [cpc EXCEPT ![ch] = "failed"]
  /\ ended' = [ended EXCEPT ![ch] = "fault"]
  /\ UNCHANGED <<registry, peer, cid, panelTask, reqTask, bc, view, rx, cframes,
                 dereg, noff, cmsg>>

\* except WebSocketDisconnect: manager.disconnect, then the offline broadcast
ClientDisconnect(ch) ==
  /\ cpc[ch] = "recv"
  /\ peer[ch] = "closed"
  /\ active_connections' = disconnect_conns(active_connections, cid[ch])
  /\ client_data' = disconnect_data(client_data, cid[ch])
  /\ dereg' = [dereg EXCEPT ![ch] = @ + 1]
  /\ noff' = [noff EXCEPT ![ch] = @ + 1]
  /\ ended' = [ended EXCEPT ![ch] = "disconnect"]
  /\ Broadcast(ch, ClientOfflineMsg(cid[ch]), "done")
  /\ cpc' = [cpc EXCEPT ![ch] = BcPc("done")]
  /\ UNCHANGED <<admins, peer, cid, panelTask, reqTask, cframes, cmsg, nops>>

\* a client channel task resumes inside its broadcast loop
ClientResume(ch) ==
  /\ cpc[ch] = "bcast"
  /\ IF bc[ch].idx < Len(admins)
     THEN /\ bc' = [bc EXCEPT ![ch] = NextBc(@)]
          /\ view' = ViewAfterSend(admins[bc[ch].idx + 1], bc[ch].msg)
          /\ rx' = RxAfterSend(admins[bc[ch].idx + 1], bc[ch].msg)
          /\ UNCHANGED cpc
     ELSE /\ bc' = [bc EXCEPT ![ch] = EndBc(@)]
          /\ cpc' = [cpc EXCEPT ![ch] = bc[ch].cont]
          /\ UNCHANGED <<view, rx>>
  /\ UNCHANGED <<registry, peer, cid, panelTask, reqTask, cframes, ended, dereg,
                 noff, cmsg, nops>>

\* ---- controller channel: panel_websocket ----
\* manager.connect_admin: append, then the snapshot
PanelConnect(a) ==
  /\ ppc[a] = "idle"
  /\ peer[a] = "open"
  /\ a = "a2" => ppc["a1"] # "idle"
  /\ Input
  /\ admins' = Append(admins, a)
  /\ view' = ViewAfterSend(a, InitStateMsg(client_data))
  /\ rx' = RxAfterSend(a, InitStateMsg(client_data))
  /\ ppc' = [ppc EXCEPT ![a] = "recv"]
  /\ UNCHANGED <<active_connections, client_data, peer, pcmd, nign, clientTask,
                 reqTask, bc, cframes>>

\* send_command: the frames the client channels have received after it
send_command_frames(cf, ac, id, cmd, payload) ==
  IF id \in DOMAIN ac /\ SendOk(ac[id])
  THEN [cf EXCEPT ![ac[id]] = Append(@, CommandMsg(cmd, payload))]
  ELSE cf

\* send_command: True when send_json returned, False when it raised or the
\* identifier has no handle
send_command_result(ac, id) == id \in DOMAIN ac /\ SendOk(ac[id])

\* mutant: only the command key is looked for
IsCommand_command(m) == "command" \in DOMAIN m

IsCommand(m) == "command" \in DOMAIN m /\ "target_id" \in DOMAIN m

\* data["target_id"] or data["command"] raises KeyError when the key is absent
KeyRaises(m) == "target_id" \notin DOMAIN m \/ "command" \notin DOMAIN m

\* data.get("payload", {})
PayloadOf(m) == IF "payload" \in DOMAIN m THEN m.payload ELSE EmptyDict

\* lines 178-180: the log entry and its broadcast, after send_command returned
PanelLog(a, target, cmd) ==
  IF target \in DOMAIN client_data
  THEN /\ client_data' = append_log(client_data, target, cmd)
       /\ Broadcast(a, LogUpdateMsg(target, cmd), "recv")
       /\ ppc' = [ppc EXCEPT ![a] = BcPc("recv")]
  ELSE /\ ppc' = [ppc EXCEPT ![a] = "recv"]
       /\ UNCHANGED <<client_data, bc, view, rx>>

PanelMessage(a, m) ==
  /\ ppc[a] = "recv"
  /\ peer[a] = "open"
  /\ Input
  /\ nign' = [nign EXCEPT ![a] = IF KeyRaises(m) THEN @ + 1 ELSE @]
  /\ IF ~IsCommand(m)
     THEN UNCHANGED <<client_data, bc, view, rx, ppc, pcmd, cframes>>
     ELSE IF KeyRaises(m)
     THEN /\ ppc' = [ppc EXCEPT ![a] = "failed"]
          /\ UNCHANGED <<client_data, bc, view, rx, pcmd, cframes>>
     ELSE LET target == m.target_id
              cmd == m.command
              payload == PayloadOf(m)
              c == [target |-> target, cmd |-> cmd, payload |-> payload,
                    result |-> send_command_result(active_connections, target),
                    op |-> nops + 1]
          IN /\ pcmd' = [pcmd EXCEPT ![a] = c]
             /\ cframes' = send_command_frames(cframes, active_connections, target, cmd, payload)
             /\ IF target \in DOMAIN active_connections
                THEN /\ ppc' = [ppc EXCEPT ![a] = "sent"]
                     /\ UNCHANGED <<client_data, bc, view, rx>>
                ELSE PanelLog(a, target, cmd)
  /\ UNCHANGED <<active_connections, admins, peer, clientTask, reqTask>>

\* the controller task resumes after the send of send_command
PanelAfterSend(a) ==
  /\ ppc[a] = "sent"
  /\ PanelLog(a, pcmd[a].target, pcmd[a].cmd)
  /\ UNCHANGED <<active_connections, admins, peer, pcmd, nign, clientTask, reqTask,
                 cframes, nops>>

PanelResume(a) ==
  /\ ppc[a] = "bcast"
  /\ IF bc[a].idx < Len(admins)
     THEN /\ bc' = [bc EXCEPT ![a] = NextBc(@)]
          /\ view' = ViewAfterSend(admins[bc[a].idx + 1], bc[a].msg)
          /\ rx' = RxAfterSend(admins[bc[a].idx + 1], bc[a].msg)
          /\ UNCHANGED ppc
     ELSE /\ bc' = [bc EXCEPT ![a] = EndBc(@)]
          /\ ppc' = [ppc EXCEPT ![a] = bc[a].cont]
          /\ UNCHANGED <<view, rx>>
  /\ UNCHANGED <<registry, peer, pcmd, nign, clientTask, reqTask, cframes, nops>>

\* except WebSocketDisconnect: manager.disconnect_admin
PanelDisconnect(a) ==
  /\ ppc[a] = "recv"
  /\ peer[a] = "closed"
  /\ admins' = disconnect_admin(admins, a)
  /\ ppc' = [ppc EXCEPT ![a] = "done"]
  /\ bc' = Unstable(a)
  /\ UNCHANGED <<active_connections, client_data, peer, pcmd, nign, clientTask,
                 reqTask, view, rx, cframes, nops>>

\* ---- submission: receive_audit ----
Submit(id, p, xff) ==
  /\ rpc = "idle"
  /\ Input
  /\ LET clean == CleanData(p, xff)
         cd1 == update_client_data(client_data, id, clean)
     IN /\ req' = [id |-> id, raw |-> p, xff |-> xff,
                   hadRecord |-> id \in DOMAIN client_data]
        /\ IF id \notin DOMAIN client_data
           THEN /\ client_data' = update_client_step(cd1, id, "submitted")
                /\ rpc' = "done"
                /\ UNCHANGED <<bc, view, rx>>
           ELSE IF admins = <<>>
           THEN /\ client_data' = update_client_step(cd1, id, "submitted")
                /\ Broadcast(ReqTask, StepUpdateMsg(id, "submitted"), "done")
                /\ rpc' = "done"
           ELSE /\ client_data' = cd1
                /\ Broadcast(ReqTask, DataUpdateMsg(cd1, id), "step")
                /\ rpc' = "bcast"
  /\ UNCHANGED <<active_connections, admins, peer, clientTask, panelTask, cframes>>

\* the request task resumes in a broadcast loop; when the data_update loop is
\* over it runs update_client_step(client_id, "submitted")
SubmitResume ==
  /\ rpc = "bcast"
  /\ IF bc[ReqTask].idx < Len(admins)
     THEN /\ bc' = [bc EXCEPT ![ReqTask] = NextBc(@)]
          /\ view' = ViewAfterSend(admins[bc[ReqTask].idx + 1], bc[ReqTask].msg)
          /\ rx' = RxAfterSend(admins[bc[ReqTask].idx + 1], bc[ReqTask].msg)
          /\ UNCHANGED <<client_data, rpc>>
     ELSE IF bc[ReqTask].cont = "step"
     THEN /\ client_data' = update_client_step(client_data, req.id, "submitted")
          /\ Broadcast(ReqTask, StepUpdateMsg(req.id, "submitted"), "done")
          /\ rpc' = BcPc("done")
     ELSE /\ bc' = [bc EXCEPT ![ReqTask] = EndBc(@)]
          /\ rpc' = "done"
          /\ UNCHANGED <<client_data, view, rx>>
  /\ UNCHANGED <<active_connections, admins, peer, req, clientTask, panelTask,
                 cframes, nops>>

\* return {"status": "ok", "message": "Data received"}: the response leaves
SubmitReturn ==
  /\ rpc = "done"
  /\ rpc' = "idle"
  /\ req' = NoReq
  /\ UNCHANGED <<registry, peer, clientTask, panelTask, bc, view, rx, cframes, nops>>

\* ---- environment: the remote end of a websocket goes away ----
PeerClose(w) ==
  /\ peer[w] = "open"
  /\ \/ w \in Chan /\ cpc[w] \in {"recv", "bcast"}
     \/ w \in Admins /\ ppc[w] \in {"recv", "sent", "bcast"}
  /\ Input
  /\ peer' = [peer EXCEPT ![w] = "closed"]
  /\ bc' = IF w \in Admins THEN Unstable(w) ELSE bc
  /\ UNCHANGED <<registry, clientTask, panelTask, reqTask, view, rx, cframes>>

Next ==
  \/ \E ch \in Chan, id \in ClientIds : ClientConnect(ch, id)
  \/ \E ch \in Chan, m \in ClientMsgs : ClientMessage(ch, m)
  \/ \E ch \in Chan : ClientFault(ch)
  \/ \E ch \in Chan : ClientDisconnect(ch)
  \/ \E ch \in Chan : ClientResume(ch)
  \/ \E a \in Admins : PanelConnect(a)
  \/ \E a \in Admins, m \in PanelMsgs : PanelMessage(a, m)
  \/ \E a \in Admins : PanelAfterSend(a)
  \/ \E a \in Admins : PanelResume(a)
  \/ \E a \in Admins : PanelDisconnect(a)
  \/ \E id \in ClientIds, i \in SubmitInputs : Submit(id, Payload(id, i.opt), i.xff)
  \/ SubmitResume
  \/ SubmitReturn
  \/ \E w \in Chan \cup Admins : PeerClose(w)

Spec == Init /\ [][Next]_vars

\* ======================= claims =======================

\* C1 (as claimed): a valid submission for an identifier without a session
\* record creates that record, with step "submitted", every submitted field in
\* its data and adresse_ip set to the address the server derived.
C1_SubmissionCreatesRecord ==
  (rpc = "done" /\ ~req.hadRecord) =>
     /\ req.id \in DOMAIN client_data
     /\ client_data[req.id].step = "submitted"
     /\ \A k \in DOMAIN req.raw :
          /\ k \in DOMAIN client_data[req.id].data
          /\ k # "adresse_ip" => client_data[req.id].data[k] = req.raw[k]
     /\ "adresse_ip" \in DOMAIN client_data[req.id].data
     /\ client_data[req.id].data["adresse_ip"] = ClientIp(req.xff)

\* a broadcast loop of task t is over in this step
BcOver(t) == bc[t].active /\ (~bc'[t].active \/ bc'[t].msg # bc[t].msg)

\* C2 (as claimed): when the broadcast of a mutation is over, every controller
\* that was connected for the whole of it has received the message exactly
\* once, and no controller has received it twice.
C2_BroadcastReachesAll ==
  [][\A t \in Tasks : BcOver(t) =>
        /\ \A a \in bc[t].stable : bc[t].got[a] = 1
        /\ \A a \in Admins : bc[t].got[a] <= 1]_vars

NoBroadcastInFlight == \A t \in Tasks : ~bc[t].active

Registered(a) == a \in Range(admins) /\ peer[a] = "open"

\* C3 (as claimed): whenever no broadcast is in flight, the view a connected
\* controller built from its snapshot and the broadcasts it received equals
\* the registry's session records.
C3_ViewEqualsRegistry ==
  NoBroadcastInFlight => \A a \in Admins : Registered(a) => view[a] = client_data

\* C4 (as claimed): whenever a client channel's receive loop has ended, by a
\* disconnect or by any other fault, disconnect() was called for it and a
\* client_offline broadcast was made.
C4_LoopEndDeregisters ==
  \A ch \in Chan : ended[ch] # "no" => (dereg[ch] = 1 /\ noff[ch] = 1)

\* C5: a client disconnect makes exactly one client_offline broadcast, which
\* names the identifier of the channel and starts only once the identifier's
\* status is "offline"; nothing else starts a client_offline broadcast.
C5_OfflineBroadcast ==
  /\ [](\A ch \in Chan : /\ ended[ch] = "disconnect" => noff[ch] = 1
                         /\ ended[ch] # "disconnect" => noff[ch] = 0)
  /\ [][/\ \A ch \in Chan : noff'[ch] # noff[ch] =>
             /\ ended'[ch] = "disconnect"
             /\ cid[ch] \in DOMAIN client_data'
             /\ client_data'[cid[ch]].status = "offline"
             /\ admins # <<>> =>
                  /\ bc'[ch].active
                  /\ bc'[ch].msg = [type |-> "client_offline", client_id |-> cid[ch]]
                  /\ bc'[ch].idx = 1
        /\ \A t \in Tasks :
             (bc'[t].msg.type = "client_offline" /\ bc[t].msg.type # "client_offline")
               => (t \in Chan /\ noff'[t] = noff[t] + 1)]_vars

C5_Witness ==
  \E ch \in Chan, a \in Admins :
     /\ ended[ch] = "disconnect"
     /\ noff[ch] = 1
     /\ bc[ch].msg.type = "client_offline"
     /\ bc[ch].got[a] = 1

\* the submission handler starts in this step
Submitted == rpc = "idle" /\ rpc' # "idle"

\* C6 (as claimed): a submission for an identifier whose data holds an earlier
\* submission keeps every field of it, with the earlier value unless the
\* caller of this submission supplied the field (adresse_ip is supplied by
\* the server on every submission).
C6_MergeKeepsOmittedFields ==
  [][(Submitted /\ req'.hadRecord /\ client_data[req'.id].data # EmptyDict) =>
       LET before == client_data[req'.id].data
           after == client_data'[req'.id].data
       IN \A k \in DOMAIN before :
            /\ k \in DOMAIN after
            /\ (k \in DOMAIN req'.raw \/ k = "adresse_ip" \/ after[k] = before[k])]_vars

\* a controller task takes a command from its channel in this step
Commanded(a) == pcmd'[a].op # pcmd[a].op

\* C7: a command for an identifier without a handle returns failure and sends
\* no frame to any client; with a session record (also an offline one) the
\* entry "Admin sent <command>" is appended to its log and one log_update
\* broadcast starts, without a record nothing is appended or broadcast.
C7_CommandWithoutConnection ==
  [][\A a \in Admins :
       (Commanded(a) /\ pcmd'[a].target \notin DOMAIN active_connections) =>
          LET id == pcmd'[a].target
              entry == <<"Admin sent", pcmd'[a].cmd>>
          IN /\ pcmd'[a].result = FALSE
             /\ cframes' = cframes
             /\ active_connections' = active_connections
             /\ IF id \in DOMAIN client_data
                THEN /\ client_data' =
                          [client_data EXCEPT ![id].logs = Append(client_data[id].logs, entry)]
                     /\ bc'[a].active
                     /\ bc'[a].idx = 1
                     /\ bc'[a].msg = [type |-> "log_update", client_id |-> id, log |-> entry]
                     /\ \A t \in Tasks \ {a} : bc'[t] = bc[t]
                ELSE /\ client_data' = client_data
                     /\ bc' = bc
                     /\ view' = view]_vars

C7_Witness ==
  \E a \in Admins :
     /\ pcmd[a].op # 0
     /\ pcmd[a].result = FALSE
     /\ pcmd[a].target \in DOMAIN client_data
     /\ pcmd[a].target \notin DOMAIN active_connections
     /\ client_data[pcmd[a].target].status = "offline"
     /\ client_data[pcmd[a].target].logs = <<LogEntry(pcmd[a].cmd)>>
     /\ bc[a].msg.type = "log_update"
     /\ \A ch \in Chan : cframes[ch] = <<>>

\* C8 (as claimed): a command for an identifier whose handle is a channel with
\* its peer still there delivers to that channel, and to no other, exactly
\* one frame whose type is the command name and which carries every payload
\* key; the log entry and the log_update broadcast follow when the task resumes.
C8_CommandDelivered ==
  [][\A a \in Admins :
       (/\ Commanded(a)
        /\ pcmd'[a].target \in DOMAIN active_connections
        /\ peer[active_connections[pcmd'[a].target]] = "open") =>
          LET ws == active_connections[pcmd'[a].target]
              n == Len(cframes[ws])
          IN /\ Len(cframes'[ws]) = n + 1
             /\ SubSeq(cframes'[ws], 1, n) = cframes[ws]
             /\ cframes'[ws][n + 1].type = pcmd'[a].cmd
             /\ \A k \in DOMAIN pcmd'[a].payload :
                  /\ k \in DOMAIN cframes'[ws][n + 1]
                  /\ cframes'[ws][n + 1][k] = pcmd'[a].payload[k]
             /\ \A ch \in Chan \ {ws} : cframes'[ch] = cframes[ch]]_vars

\* a client channel registers in this step
Connected(ch) == cpc[ch] = "idle" /\ cpc'[ch] # "idle"

\* C9: registering a client connection for an identifier without a record
\* creates the record (online, connected, empty log, empty data); for an
\* identifier whose record is offline it sets the status to online and leaves
\* step, log and data as they are; no other record changes.
C9_RegisterClient ==
  [][\A ch \in Chan : Connected(ch) =>
       LET id == cid'[ch]
       IN /\ id \notin DOMAIN client_data =>
               client_data' = Put(client_data, id,
                                  [client_id |-> id, status |-> "online",
                                   step |-> "connected", logs |-> <<>>,
                                   data |-> EmptyDict])
          /\ (id \in DOMAIN client_data /\ client_data[id].status = "offline") =>
               client_data' = [client_data EXCEPT ![id].status = "online"]
          /\ active_connections' = Put(active_connections, id, ch)]_vars

\* a channel registered for an identifier whose offline record held data
C9_Witness ==
  /\ ended["k1"] = "disconnect"
  /\ cpc["k2"] = "recv"
  /\ cid["k2"] = cid["k1"]
  /\ client_data[cid["k1"]].status = "online"
  /\ client_data[cid["k1"]].data # EmptyDict
  /\ client_data[cid["k1"]].step = "submitted"

\* a client channel task calls disconnect() in this step
Deregistered(ch) == dereg'[ch] # dereg[ch]

Unknown == "c0"

\* C10: disconnect() sets the identifier's status to offline, removes its
\* handle and nothing else, and leaves its step, log and data and every other
\* record and handle as they are; for an identifier the registry does not
\* know it changes nothing.
C10_DeregisterClient ==
  /\ [](/\ disconnect_conns(active_connections, Unknown) = active_connections
        /\ disconnect_data(client_data, Unknown) = client_data)
  /\ [][\A ch \in Chan : Deregistered(ch) =>
          LET id == cid[ch]
          IN /\ client_data' = [client_data EXCEPT ![id].status = "offline"]
             /\ DOMAIN active_connections' = DOMAIN active_connections \ {id}
             /\ \A j \in DOMAIN active_connections' :
                  active_connections'[j] = active_connections[j]
             /\ admins' = admins]_vars

C10_Witness ==
  \E ch \in Chan :
     /\ ended[ch] = "disconnect"
     /\ client_data[cid[ch]].status = "offline"
     /\ client_data[cid[ch]].data # EmptyDict
     /\ \E j \in DOMAIN active_connections : j # cid[ch]

\* the controller channel handler registers the controller in this step
PanelConnected(a) == ppc[a] = "idle" /\ ppc'[a] # "idle"

\* C11: the step that registers a controller appends it to the controller
\* list and delivers one init_state frame to it, whose client mapping is
\* exactly the session records the registry holds at that moment; the step
\* changes no record.
C11_SnapshotAtRegistration ==
  [][\A a \in Admins : PanelConnected(a) =>
        /\ admins' = Append(admins, a)
        /\ rx[a].init = 0 /\ rx'[a].init = 1
        /\ view'[a] = client_data
        /\ client_data' = client_data]_vars

C11_Witness ==
  \E a \in Admins :
     /\ nops = 4
     /\ ppc[a] = "recv"
     /\ rx[a].init = 1
     /\ DOMAIN view[a] = ClientIds
     /\ view[a] = client_data
     /\ \E id \in ClientIds : view[a][id].status = "offline"

\* C12: no step removes a session record: an identifier that has a record
\* before a step has one after it.
C12_RecordsNeverRemoved ==
  [][DOMAIN client_data \subseteq DOMAIN client_data']_vars

C12_Witness ==
  \E ch \in Chan :
     /\ dereg[ch] = 1
     /\ cid[ch] \notin DOMAIN active_connections
     /\ cid[ch] \in DOMAIN client_data
     /\ client_data[cid[ch]].status = "offline"

\* the sends of a broadcast loop that were delivered
Delivered(r) == r.got["a1"] + r.got["a2"]

\* C13 (as claimed): when a broadcast in which a send failed is over, every
\* controller that was connected for the whole of it has received the
\* message; a resumed loop changes no session record and no client handle.
C13_SendFailureAbsorbed ==
  [][\A t \in Tasks :
        /\ (BcOver(t) /\ Delivered(bc[t]) < bc[t].idx) =>
              \A a \in bc[t].stable : bc[t].got[a] = 1
        /\ (bc[t].active /\ bc'[t].active /\ bc'[t].idx = bc[t].idx + 1) =>
              /\ client_data' = client_data
              /\ active_connections' = active_connections]_vars

\* C14: a submission for an identifier without a session record, which calls
\* update_client_data and update_client_step for it, leaves the registry as it
\* is and delivers nothing to a controller; both operations map a registry
\* without the identifier to itself.
C14_UnknownIdIsNoOp ==
  /\ [][(Submitted /\ ~req'.hadRecord) =>
          /\ active_connections' = active_connections
          /\ client_data' = client_data
          /\ admins' = admins
          /\ bc' = bc
          /\ view' = view
          /\ rx' = rx
          /\ rpc' = "done"]_vars
  /\ [](/\ update_client_data(client_data, Unknown, BasePayload(Unknown)) = client_data
        /\ update_client_step(client_data, Unknown, "submitted") = client_data)

C14_Witness ==
  /\ rpc = "done"
  /\ ~req.hadRecord
  /\ req.id \notin DOMAIN client_data
  /\ client_data # EmptyDict
  /\ \E a \in Admins : Registered(a) /\ view[a] = client_data

\* a controller channel received a frame without command or without
\* target_id in this step
Ignored(a) == nign'[a] # nign[a]

\* C15: a controller frame that lacks command or target_id changes no record,
\* handle or controller list, delivers nothing to a client or a controller,
\* starts no broadcast, and leaves the controller task receiving.
C15_IncompleteCommandIgnored ==
  [][\A a \in Admins : Ignored(a) =>
        /\ active_connections' = active_connections
        /\ client_data' = client_data
        /\ admins' = admins
        /\ cframes' = cframes
        /\ bc' = bc
        /\ view' = view
        /\ pcmd' = pcmd
        /\ ppc'[a] = "recv"]_vars

C15_Witness ==
  \E a \in Admins :
     /\ nign[a] = 2
     /\ ppc[a] = "recv"
     /\ pcmd[a] = NoCmd
     /\ \E id \in ClientIds :
          /\ id \in DOMAIN active_connections
          /\ client_data[id].logs = <<>>

\* a client channel task took a frame from its websocket in this step
Handled(ch) == cmsg'[ch] # cmsg[ch]

\* C16 (as claimed): a step_update frame with nested data sets the step of
\* the channel's identifier to the nested step, or to "unknown" without one,
\* and changes nothing else; every other frame, a step_update without nested
\* data included, changes no record and no handle, starts no broadcast and
\* leaves the channel task receiving.
C16_ClientInbound ==
  [][\A ch \in Chan : Handled(ch) =>
        LET m == cmsg'[ch].m
        IN IF IsStepUpdate(m) /\ "data" \in DOMAIN m
           THEN /\ client_data' = [client_data EXCEPT ![cid[ch]].step = StepOf(m)]
                /\ active_connections' = active_connections
                /\ cpc'[ch] \in {"recv", "bcast"}
           ELSE /\ client_data' = client_data
                /\ active_connections' = active_connections
                /\ bc' = bc
                /\ view' = view
                /\ cpc'[ch] = "recv"
                /\ ended'[ch] = "no"]_vars

\* C17: a controller has received no incremental frame before its init_state
\* frame and never a second init_state frame; once its handler has registered
\* it, it has received exactly one.
C17_InitStateFirst ==
  \A a \in Admins :
     /\ rx[a].early = 0
     /\ rx[a].init <= 1
     /\ ppc[a] # "idle" => rx[a].init = 1

C17_Witness ==
  \E t \in Tasks :
     /\ bc[t].active
     /\ bc[t].got["a2"] = 1
     /\ "a2" \notin bc[t].stable
     /\ peer["a2"] = "open"
     /\ ppc["a2"] = "recv"
     /\ rx["a2"] = [init |-> 1, early |-> 0]

\* the submission handler has run its update_client_step
StepPhase == rpc = "done" \/ (rpc = "bcast" /\ bc[ReqTask].cont = "done")

\* a client channel of identifier id applied a step_update with result step
OwnStepUpdate(ch, id, step) ==
  /\ cid[ch] = id
  /\ IsStepUpdate(cmsg[ch].m)
  /\ ~Raises(cmsg[ch].m)
  /\ StepOf(cmsg[ch].m) = step

\* C18: a submission for an identifier with a record merges the data in its
\* first step and, with a controller registered, leaves the step as it is
\* while its data_update broadcast runs; its update_client_step sets the step
\* to "submitted" and starts the step_update broadcast only when the
\* data_update loop is over; from then until the acknowledgement only a
\* step_update frame of the identifier's own channel changes the step.
C18_MergeBeforeStep ==
  /\ [][(Submitted /\ req'.hadRecord) =>
          LET id == req'.id
          IN /\ client_data'[id].data =
                  DictUpdate(client_data[id].data, CleanData(req'.raw, req'.xff))
             /\ rpc' = "bcast" =>
                  /\ client_data'[id].step = client_data[id].step
                  /\ bc'[ReqTask].msg = DataUpdateMsg(client_data', id)]_vars
  /\ [][(rpc = "bcast" /\ bc[ReqTask].cont = "step" /\ bc'[ReqTask].cont # "step") =>
          /\ bc[ReqTask].msg.type = "data_update"
          /\ bc[ReqTask].idx >= Len(admins)
          /\ client_data'[req.id].step = "submitted"
          /\ rpc' = "bcast" => bc'[ReqTask].msg = StepUpdateMsg(req.id, "submitted")]_vars
  /\ [][(StepPhase /\ req.hadRecord /\ rpc' # "idle"
           /\ client_data'[req.id].step # client_data[req.id].step) =>
          \E ch \in Chan :
             Handled(ch) /\ OwnStepUpdate(ch, req.id, client_data[req.id].step)']_vars

C18_Witness ==
  /\ nops = 3
  /\ rpc = "bcast"
  /\ req.hadRecord
  /\ bc[ReqTask].msg = StepUpdateMsg(req.id, "submitted")
  /\ client_data[req.id].step = "submitted"
  /\ \E a \in Admins :
       /\ bc[ReqTask].got[a] = 1
       /\ view[a][req.id].data = CleanData(req.raw, req.xff)
       /\ view[a][req.id].step = "submitted"

\* C19: an identifier has a handle in the registry exactly when it has a
\* session record whose status is "online".
C19_HandleIffOnline ==
  \A id \in ClientIds \cup {Unknown} :
     id \in DOMAIN active_connections <=>
        (id \in DOMAIN client_data /\ client_data[id].status = "online")

C19_Witness ==
  /\ "c1" \in DOMAIN active_connections
  /\ client_data["c1"].status = "online"
  /\ "c2" \in DOMAIN client_data
  /\ "c2" \notin DOMAIN active_connections
  /\ client_data["c2"].status = "offline"

\* a client channel is registered and its peer has not disconnected
Open(ch) == cpc[ch] \in {"recv", "bcast"} /\ peer[ch] = "open"

\* C20 (as claimed): while a channel opened under an identifier is open, the
\* registry holds a handle for the identifier, the handle is an open channel
\* and the record's status is "online".
C20_OpenChannelKeepsHandle ==
  \A ch \in Chan : Open(ch) =>
     /\ cid[ch] \in DOMAIN active_connections
     /\ Open(active_connections[cid[ch]])
     /\ client_data[cid[ch]].status = "online"
====
